---- MODULE Spec2Model ----
(***************************************************************************)
(* State-machine model of src/app.py: the Streamlit script main(), the     *)
(* cached paginated fetcher fetch_all_room_data, the cached organizer      *)
(* loader fetch_organizer_list, and the pandas join / dedupe / sort /      *)
(* encode steps that main() runs on the collected records.                 *)
(*                                                                         *)
(* Text is modelled as sequences of one-character strings, so that str(),  *)
(* pd.to_numeric, str.isdigit and the lexicographic order of group keys    *)
(* are computed character by character.                                    *)
(***************************************************************************)
EXTENDS Integers, Sequences, FiniteSets, TLC

\* ------------------------------------------------------------------ bounds
\* HTTP requests to the room-list API over one behaviour.
MaxRequests == 3
\* Script runs (invocations of main) over one behaviour.
MaxRuns == 4

\* ------------------------------------------------------------- characters
DigitChars == <<"0", "1", "2", "3", "4", "5", "6", "7", "8", "9">>

\* Characters in code-point order (digits < upper case < lower case); NonCp932
\* stands for a character that has no CP932 encoding.
NonCp932 == "U+00E9"
Alphabet == DigitChars \o <<"A", "B", "N", "a", "c", "e", "n", "o", "x", NonCp932>>

IsDigitChar(c) == \E i \in 1..Len(DigitChars) : DigitChars[i] = c

DigitVal(c) == (CHOOSE i \in 1..Len(DigitChars) : DigitChars[i] = c) - 1

CharCode(c) == CHOOSE i \in 1..Len(Alphabet) : Alphabet[i] = c

\* Python's < on str: lexicographic by code point.
RECURSIVE StrLess(_, _)
StrLess(a, b) ==
    IF b = <<>> THEN FALSE
    ELSE IF a = <<>> THEN TRUE
    ELSE IF Head(a) # Head(b) THEN CharCode(Head(a)) < CharCode(Head(b))
    ELSE StrLess(Tail(a), Tail(b))

\* str.isdigit(): non-empty and every character a digit.
IsDigitStr(s) == s # <<>> /\ \A i \in 1..Len(s) : IsDigitChar(s[i])

RECURSIVE DigitsToNat(_, _)
DigitsToNat(s, acc) ==
    IF s = <<>> THEN acc ELSE DigitsToNat(Tail(s), 10 * acc + DigitVal(Head(s)))

\* str(n) for a non-negative int.
RECURSIVE NatToStr(_)
NatToStr(n) ==
    IF n < 10 THEN <<DigitChars[n + 1]>>
    ELSE NatToStr(n \div 10) \o <<DigitChars[(n % 10) + 1]>>

\* pd.to_numeric(column, errors='coerce') on one cell: the number a digit
\* string denotes, NaN for anything else.
NaN == [nan |-> TRUE, n |-> 0]
ToNumeric(s) == IF IsDigitStr(s) THEN [nan |-> FALSE, n |-> DigitsToNat(s, 0)] ELSE NaN

\* ------------------------------------------------------------- JSON values
Missing == [t |-> "missing", n |-> 0, s |-> <<>>]
Null == [t |-> "null", n |-> 0, s |-> <<>>]
JInt(n) == [t |-> "int", n |-> n, s |-> <<>>]
JStr(s) == [t |-> "str", n |-> 0, s |-> s]

\* dict.get(key, default): the default only when the key is absent.
Get(v, default) == IF v.t = "missing" THEN default ELSE v

\* Python truthiness of the value dict.get returned.
Truthy(v) == (v.t = "int" /\ v.n # 0) \/ (v.t = "str" /\ v.s # <<>>)

\* str(v)
Str(v) ==
    CASE v.t = "int" -> NatToStr(v.n)
      [] v.t = "str" -> v.s
      [] OTHER -> <<"N", "o", "n", "e">>

\* ------------------------------------------------- the room-list API's JSON
\* One element of the response's "list": the keys fetch_all_room_data reads,
\* plus the top-level event_id the API also sends.
EE(v) == [t |-> "obj", event_id |-> v]
EEMissing == [t |-> "missing", event_id |-> Missing]
EENull == [t |-> "null", event_id |-> Missing]

Entry(rid, name, oid, ee, top) ==
    [room_id |-> rid, room_name |-> name, organizer_id |-> oid,
     event_entry |-> ee, event_id |-> top]

\* What requests.get / raise_for_status / response.json() can raise.
FailKinds == {"timeout", "connection", "http_status", "bad_json"}

Body(list, np) == [kind |-> "ok", has_list |-> TRUE, list |-> list, next_page |-> np]
BodyNoList(np) == [kind |-> "ok", has_list |-> FALSE, list |-> <<>>, next_page |-> np]
Fail(k) == [kind |-> k, has_list |-> FALSE, list |-> <<>>, next_page |-> Missing]

\* ---------------------------------------------- fetch_all_room_data's loop
\* room_data.get("event_entry", {}).get("event_id"): raises AttributeError
\* when event_entry is present and null.
EntryRaises(e) == e.event_entry.t = "null"

\* The event_id read from the entry itself instead of from its event_entry.
TopLevelEventId(e) == Get(e.event_id, Null)

NestedEventId(e) ==
    IF e.event_entry.t = "missing" THEN Null ELSE Get(e.event_entry.event_id, Null)

\* if room_id and current_event_id
EntryKept(e) == Truthy(Get(e.room_id, Null)) /\ Truthy(NestedEventId(e))

\* The dict appended to all_rooms.
RoomRecord(e) ==
    [room_id |-> Str(Get(e.room_id, Null)),
     event_id |-> Str(NestedEventId(e)),
     room_name |-> Str(Get(e.room_name, JStr(<<>>))),
     organizer_id |-> Str(Get(e.organizer_id, JInt(0)))]

\* The loop with insert(0, ...) in place of append.
RECURSIVE ProcessListPrepending(_, _)
ProcessListPrepending(list, acc) ==
    IF list = <<>> THEN [rooms |-> acc, raised |-> FALSE]
    ELSE IF EntryRaises(Head(list)) THEN [rooms |-> acc, raised |-> TRUE]
    ELSE ProcessListPrepending(Tail(list),
                               IF EntryKept(Head(list)) THEN <<RoomRecord(Head(list))>> \o acc
                               ELSE acc)

\* for room_data in room_list: ... ; an exception leaves the loop with what
\* was appended before it.
RECURSIVE ProcessList(_, _)
ProcessList(list, acc) ==
    IF list = <<>> THEN [rooms |-> acc, raised |-> FALSE]
    ELSE IF EntryRaises(Head(list)) THEN [rooms |-> acc, raised |-> TRUE]
    ELSE ProcessList(Tail(list),
                     IF EntryKept(Head(list)) THEN Append(acc, RoomRecord(Head(list)))
                     ELSE acc)

\* The loop's exit test without the comparison with the current page.
LoopEndsOnNullOnly(np, pg) == np.t \in {"missing", "null"}

\* if next_page is None or next_page == page
LoopEnds(np, pg) == np.t \in {"missing", "null"} \/ (np.t = "int" /\ np.n = pg)

\* An error handler that gives up what the call had collected.
OnErrorDropsRooms(rooms, pg, diag) ==
    [all_rooms |-> <<>>, page |-> pg, done |-> TRUE, diag |-> diag]

\* except RequestException / except Exception: st.error, break; the records
\* appended so far stay in all_rooms.
OnError(rooms, pg, diag) == [all_rooms |-> rooms, page |-> pg, done |-> TRUE, diag |-> diag]

\* An iteration without the check of lines 39-42: an absent or empty list is
\* a page of no entries, and next_page decides.
FetchStepNoEmptyGuard(rooms, pg, resp) ==
    IF resp.kind # "ok"
    THEN OnError(rooms, pg, IF resp.kind = "bad_json" THEN "json_error" ELSE "request_error")
    ELSE LET r == ProcessList(resp.list, rooms) IN
         IF r.raised THEN OnError(r.rooms, pg, "unexpected_error")
         ELSE IF LoopEnds(resp.next_page, pg)
         THEN [all_rooms |-> r.rooms, page |-> pg, done |-> TRUE, diag |-> "page_done"]
         ELSE [all_rooms |-> r.rooms, page |-> resp.next_page.n, done |-> FALSE,
               diag |-> "page_done"]

\* One iteration of the while True loop, given the response to the request
\* for page pg.
FetchStep(rooms, pg, resp) ==
    IF resp.kind # "ok"
    THEN \* an unparsable body is caught by either except clause, depending on
         \* whether the installed requests derives its JSONDecodeError from
         \* RequestException; both report and break
         OnError(rooms, pg, IF resp.kind = "bad_json" THEN "json_error" ELSE "request_error")
    ELSE IF ~resp.has_list \/ resp.list = <<>>
    THEN [all_rooms |-> rooms, page |-> pg, done |-> TRUE, diag |-> "no_rooms"]
    ELSE LET r == ProcessList(resp.list, rooms) IN
         IF r.raised THEN OnError(r.rooms, pg, "unexpected_error")
         ELSE IF LoopEnds(resp.next_page, pg)
         THEN [all_rooms |-> r.rooms, page |-> pg, done |-> TRUE, diag |-> "page_done"]
         ELSE [all_rooms |-> r.rooms, page |-> resp.next_page.n, done |-> FALSE,
               diag |-> "page_done"]

\* ------------------------------------------------- fetch_organizer_list
\* A cell of the CSV read with dtype=str: an empty field is NaN.
Cell(s) == [nan |-> s = <<>>, s |-> s]

OrgFailKinds == {"timeout", "connection", "http_status", "decode_error", "parse_error"}

OrgCsv(header, rows) == [kind |-> "ok", header |-> header, rows |-> rows]
OrgFail(k) == [kind |-> k, header |-> <<>>, rows |-> <<>>]

EmptyMap == [k \in {} |-> Cell(<<>>)]

\* pd.Series(df.iloc[:, 1].values, index=df.iloc[:, 0]).to_dict(): on a
\* repeated id the last row wins.
OrgMap(rows) ==
    LET ids == {Cell(rows[i][1]) : i \in 1..Len(rows)}
        last(k) == CHOOSE i \in 1..Len(rows) :
                      /\ Cell(rows[i][1]) = k
                      /\ \A j \in 1..Len(rows) : Cell(rows[j][1]) = k => j <= i
    IN [k \in ids |-> Cell(rows[last(k)][2])]

\* The whole function body: the returned mapping and the diagnostic shown.
LoadOrganizers(resp) ==
    IF resp.kind \in {"timeout", "connection", "http_status"}
    THEN [map |-> EmptyMap, diag |-> "request_error"]
    ELSE IF resp.kind # "ok" THEN [map |-> EmptyMap, diag |-> "unexpected_error"]
    ELSE IF Len(resp.header) >= 2 THEN [map |-> OrgMap(resp.rows), diag |-> "success"]
    ELSE [map |-> EmptyMap, diag |-> "few_columns"]

\* ------------------------------------------------------- main: the join
\* A lookup that falls back to the id instead of the blank.
OrganizerNameOrId(omap, oid) ==
    IF DOMAIN omap # {} /\ Cell(oid) \in DOMAIN omap /\ ~omap[Cell(oid)].nan
    THEN omap[Cell(oid)].s
    ELSE oid

\* new_df['organizer_id'].map(organizer_map).fillna(''), or '' when the
\* mapping is empty.
OrganizerName(omap, oid) ==
    IF DOMAIN omap # {} /\ Cell(oid) \in DOMAIN omap /\ ~omap[Cell(oid)].nan
    THEN omap[Cell(oid)].s
    ELSE <<>>

JoinRow(omap, r) ==
    [room_id |-> r.room_id, event_id |-> r.event_id, room_name |-> r.room_name,
     organizer_id |-> r.organizer_id,
     organizer_name |-> OrganizerName(omap, r.organizer_id)]

Join(omap, rows) == [i \in 1..Len(rows) |-> JoinRow(omap, rows[i])]

\* ------------------------------------------------------ main: the dedupe
\* groupby sorts the group keys (sort=True): room_id strings in ascending
\* lexicographic order.
RECURSIVE SortedKeys(_)
SortedKeys(ks) ==
    IF ks = {} THEN <<>>
    ELSE LET m == CHOOSE k \in ks : \A o \in ks : o = k \/ StrLess(k, o)
         IN <<m>> \o SortedKeys(ks \ {m})

GroupOf(df, rid) == {i \in 1..Len(df) : df[i].room_id = rid}

EventNum(df, i) == ToNumeric(df[i].event_id)

\* idxmax skips NaN; a group with no number has no maximum.
AllNaN(df, g) == \A i \in g : EventNum(df, i).nan

\* The label of the group's first row, whatever its event_id_num.
IdxMaxFirstRow(df, g) == CHOOSE i \in g : \A j \in g : i <= j

\* An idxmax that returns the label of the last row holding the largest value.
IdxMaxLast(df, g) ==
    CHOOSE i \in g :
        /\ ~EventNum(df, i).nan
        /\ \A j \in g : ~EventNum(df, j).nan =>
              \/ EventNum(df, j).n < EventNum(df, i).n
              \/ (EventNum(df, j).n = EventNum(df, i).n /\ j <= i)

\* SeriesGroupBy.idxmax(): the label of the first row holding the group's
\* largest event_id_num.
IdxMax(df, g) ==
    CHOOSE i \in g :
        /\ ~EventNum(df, i).nan
        /\ \A j \in g : ~EventNum(df, j).nan =>
              \/ EventNum(df, j).n < EventNum(df, i).n
              \/ (EventNum(df, j).n = EventNum(df, i).n /\ i <= j)

\* final_df.loc[groupby('room_id')['event_id_num'].idxmax()]: for an all-NaN
\* group idxmax yields NaN (or raises), and .loc raises on the missing label.
DedupeRaises(df) == \E i \in 1..Len(df) : AllNaN(df, GroupOf(df, df[i].room_id))

Dedupe(df) ==
    LET keys == SortedKeys({df[i].room_id : i \in 1..Len(df)})
    IN [k \in 1..Len(keys) |-> df[IdxMax(df, GroupOf(df, keys[k]))]]

\* -------------------------------------------------------- main: the sort
RoomNum(r) == ToNumeric(r.room_id)

SelectSeqIdx(df, idxs) ==
    LET RECURSIVE Pick(_)
        Pick(i) == IF i > Len(df) THEN <<>>
                   ELSE (IF i \in idxs THEN <<df[i]>> ELSE <<>>) \o Pick(i + 1)
    IN Pick(1)

\* The orders in which a sort that is not stable may leave rows of equal key.
Perms(s) ==
    {[i \in 1..Len(s) |-> s[p[i]]] :
        p \in {q \in [1..Len(s) -> 1..Len(s)] : \A a, b \in 1..Len(s) : q[a] = q[b] => a = b}}

RECURSIVE SortedNums(_)
SortedNums(ns) ==
    IF ns = {} THEN <<>>
    ELSE LET m == CHOOSE n \in ns : \A o \in ns : n <= o
         IN <<m>> \o SortedNums(ns \ {m})

\* The frame left in the order the dedupe produced.
SortOutcomesUnsorted(df) == {df}

\* The sort with na_position='first'.
SortOutcomesNaNFirst(df) ==
    LET nums == SortedNums({RoomNum(df[i]).n : i \in {j \in 1..Len(df) : ~RoomNum(df[j]).nan}})
        class(n) == SelectSeqIdx(df, {i \in 1..Len(df) : ~RoomNum(df[i]).nan /\ RoomNum(df[i]).n = n})
        nans == SelectSeqIdx(df, {i \in 1..Len(df) : RoomNum(df[i]).nan})
        RECURSIVE Build(_)
        Build(k) == IF k > Len(nums) THEN {<<>>}
                    ELSE {c \o rest : c \in Perms(class(nums[k])), rest \in Build(k + 1)}
    IN {nans \o s : s \in Build(1)}

\* sort_values(by='room_id_num', ascending=True): kind='quicksort' (not
\* stable) on the non-NaN keys, na_position='last' with the NaN rows in
\* their order in the frame.
SortOutcomes(df) ==
    LET nums == SortedNums({RoomNum(df[i]).n : i \in {j \in 1..Len(df) : ~RoomNum(df[j]).nan}})
        class(n) == SelectSeqIdx(df, {i \in 1..Len(df) : ~RoomNum(df[i]).nan /\ RoomNum(df[i]).n = n})
        nans == SelectSeqIdx(df, {i \in 1..Len(df) : RoomNum(df[i]).nan})
        RECURSIVE Build(_)
        Build(k) == IF k > Len(nums) THEN {nans}
                    ELSE {c \o rest : c \in Perms(class(nums[k])), rest \in Build(k + 1)}
    IN Build(1)

\* ------------------------------------------------------ main: the encode
\* csv.QUOTE_MINIMAL: a field holding the delimiter, the quote character or
\* a line break is quoted, its quotes doubled.
NeedsQuote(s) == \E i \in 1..Len(s) : s[i] \in {",", "\"", "\n", "\r"}

RECURSIVE DoubleQuotes(_)
DoubleQuotes(s) ==
    IF s = <<>> THEN <<>>
    ELSE (IF Head(s) = "\"" THEN <<"\"", "\"">> ELSE <<Head(s)>>) \o DoubleQuotes(Tail(s))

CsvField(s) == IF NeedsQuote(s) THEN <<"\"">> \o DoubleQuotes(s) \o <<"\"">> ELSE s

CsvRow(r) ==
    CsvField(r.room_id) \o <<",">> \o CsvField(r.event_id) \o <<",">> \o
    CsvField(r.room_name) \o <<",">> \o CsvField(r.organizer_id) \o <<",">> \o
    CsvField(r.organizer_name) \o <<"\n">>

\* final_df.to_csv(index=False, header=False)
RECURSIVE ToCsv(_)
ToCsv(df) == IF df = <<>> THEN <<>> ELSE CsvRow(Head(df)) \o ToCsv(Tail(df))

\* .encode('cp932', 'ignore'): characters without a CP932 encoding vanish.
RECURSIVE EncodeCp932(_)
EncodeCp932(s) ==
    IF s = <<>> THEN <<>>
    ELSE (IF Head(s) = NonCp932 THEN <<>> ELSE <<Head(s)>>) \o EncodeCp932(Tail(s))

\* ------------------------------------------------ main: the event-ID input
IsSpace(c) == c \in {" ", "\n", "\t"}

RECURSIVE LStrip(_)
LStrip(s) == IF s # <<>> /\ IsSpace(Head(s)) THEN LStrip(Tail(s)) ELSE s

RECURSIVE RStrip(_)
RStrip(s) ==
    IF s # <<>> /\ IsSpace(s[Len(s)]) THEN RStrip(SubSeq(s, 1, Len(s) - 1)) ELSE s

\* str.strip()
Strip(s) == RStrip(LStrip(s))

\* re.split(r'[\n,]+', s): cut at every maximal run of newlines and commas;
\* a run at either end leaves an empty token there.
RECURSIVE SplitIds(_, _, _)
SplitIds(s, cur, inSep) ==
    IF s = <<>> THEN <<cur>>
    ELSE IF Head(s) \in {"\n", ","}
    THEN (IF inSep THEN <<>> ELSE <<cur>>) \o SplitIds(Tail(s), <<>>, TRUE)
    ELSE SplitIds(Tail(s), Append(cur, Head(s)), FALSE)

RECURSIVE DigitTokens(_)
DigitTokens(toks) ==
    IF toks = <<>> THEN <<>>
    ELSE (IF IsDigitStr(Strip(Head(toks))) THEN <<Strip(Head(toks))>> ELSE <<>>)
         \o DigitTokens(Tail(toks))

\* event_ids as main() computes it from the text area.
ParseEventIds(input) ==
    IF input = <<>> THEN <<>> ELSE DigitTokens(SplitIds(Strip(input), <<>>, FALSE))

\* --------------------------------------------------------- sample inputs
\* Text the user can type into the text area.
Inputs ==
    { <<>>,
      <<"x", ",", " ">>,
      <<"1">>,
      <<"1", ",", "2">>,
      <<" ", "2", "\n", "1", ",", "x">>,
      <<"1", ",", " ", "1">> }

eR5E100 == Entry(JInt(5), JStr(<<"A">>), JInt(7), EE(JInt(100)), JInt(9))
eR5E200 == Entry(JStr(<<"5">>), JStr(<<"B", NonCp932>>), JInt(9), EE(JInt(200)), Missing)
eR5E100b == Entry(JInt(5), JStr(<<"B">>), JInt(9), EE(JStr(<<"1", "0", "0">>)), Missing)
eR10E100 == Entry(JInt(10), Missing, Missing, EE(JStr(<<"1", "0", "0">>)), Missing)
eR2Ex == Entry(JInt(2), Null, JStr(<<"7">>), EE(JStr(<<"x">>)), JInt(9))
eR2E200 == Entry(JStr(<<"2">>), JStr(<<"c">>), JInt(8), EE(JInt(200)), JInt(9))
eR05 == Entry(JStr(<<"0", "5">>), JStr(<<"a">>), JInt(7), EE(JInt(100)), Missing)
eRa == Entry(JStr(<<"a">>), JStr(<<"a">>), Missing, EE(JInt(100)), Missing)
eRx == Entry(JStr(<<"x">>), JStr(<<"c">>), JInt(8), EE(JInt(100)), Missing)
eR5E0200 == Entry(JInt(5), JStr(<<"c">>), JInt(8), EE(JStr(<<"0", "2", "0", "0">>)), Missing)
eRoomNull == Entry(Null, JStr(<<"A">>), JInt(7), EE(JInt(100)), JInt(9))
eRoomEmpty == Entry(JStr(<<>>), JStr(<<"A">>), JInt(7), EE(JInt(100)), JInt(9))
eRoomMissing == Entry(Missing, JStr(<<"A">>), JInt(7), EE(JInt(100)), JInt(9))
eNoEntry == Entry(JStr(<<"5">>), JStr(<<"A">>), JInt(7), EEMissing, JInt(9))
eEntryNoId == Entry(JInt(5), JStr(<<"A">>), JInt(7), EE(Missing), JInt(9))
eEntryNull == Entry(JInt(5), JStr(<<"A">>), JInt(7), EENull, JInt(9))

\* Responses the room-list API can give to one request.
Responses ==
    { Fail(k) : k \in FailKinds } \cup
    { BodyNoList(JInt(2)),
      Body(<<>>, Null),
      Body(<<eR5E100, eRoomNull, eNoEntry, eR10E100>>, JInt(2)),
      Body(<<eR5E200>>, Missing),
      Body(<<eRoomEmpty, eEntryNoId, eRoomMissing>>, JInt(2)),
      Body(<<eR5E100, eEntryNull, eR10E100>>, JInt(2)),
      Body(<<eR2Ex>>, JInt(1)),
      Body(<<eR10E100, eR2E200>>, JInt(2)),
      Body(<<eR5E100b, eR05, eRa>>, JInt(1)),
      Body(<<eR5E0200, eRx, eEntryNull, eR5E200>>, Null),
      Body(<<eRoomNull, eEntryNull>>, JInt(2)) }

\* Responses the organizer-list URL can give.
OrgResponses ==
    { OrgFail(k) : k \in OrgFailKinds } \cup
    { OrgCsv(<<<<"A">>>>, <<<<<<"7">>>>>>),
      OrgCsv(<<<<"A">>, <<"B">>>>, <<>>),
      OrgCsv(<<<<"A">>, <<"B">>>>,
             << <<<<"7">>, <<"B">>>>, <<<<"8">>, <<>>>>, <<<<"7">>, <<"A", "c">>>> >>) }

\* ------------------------------------------------------------------ state
VARIABLES
    pc,               \* "idle" (no script run in progress), "loading_org", "fetching"
    nRuns,            \* script runs started
    nReq,             \* requests sent to the room-list API
    orgCache,         \* st.cache_data of fetch_organizer_list
    roomCache,        \* st.cache_data of fetch_all_room_data: event_id -> list
    event_ids_input,  \* the text area's content
    button,           \* st.button's value in this run
    organizer_map,    \* main's organizer_map
    event_ids,        \* main's event_ids
    idx,              \* position of the for loop in event_ids
    new_data_list,    \* main's new_data_list
    all_rooms,        \* fetch_all_room_data's all_rooms
    page,             \* fetch_all_room_data's page
    outcome,          \* how far main() got in this run
    new_df,           \* main's new_df after the join
    final_df,         \* main's final_df
    artifact,         \* what st.download_button was given
    requests,         \* HTTP requests sent in this run, in order
    lastResp,         \* the room-list response handled last in this run
    fetchDiag         \* what the fetcher reported for it

vars == <<pc, nRuns, nReq, orgCache, roomCache, event_ids_input, button, organizer_map,
          event_ids, idx, new_data_list, all_rooms, page, outcome, new_df, final_df,
          artifact, requests, lastResp, fetchDiag>>

NoArtifact == [produced |-> FALSE, data |-> <<>>]
NoResp == Fail("none")
NoCache == [k \in {} |-> <<>>]

OrgRequest == [to |-> "organizer_list", event |-> <<>>, page |-> 0]
ApiRequest(e, p) == [to |-> "room_list", event |-> e, page |-> p]

\* ---------------------------------------------------- main, after step 0
\* Lines 160-223: the total-failure check, the join, the dedupe, the sort and
\* the download button. The .loc of the dedupe raising ends the script run.
Finish(ndl, omap) ==
    IF ndl = <<>>
    THEN {[outcome |-> "total_failure", new_df |-> <<>>, final_df |-> <<>>,
           artifact |-> NoArtifact]}
    ELSE LET df == Join(omap, ndl) IN
         IF DedupeRaises(df)
         THEN {[outcome |-> "crashed", new_df |-> df, final_df |-> <<>>,
                artifact |-> NoArtifact]}
         ELSE {[outcome |-> "done", new_df |-> df, final_df |-> f,
                artifact |-> [produced |-> TRUE, data |-> EncodeCp932(ToCsv(f))]] :
                  f \in SortOutcomes(Dedupe(df))}

\* The for loop over event_ids while the calls are answered by the cache.
RECURSIVE SkipCached(_, _, _, _)
SkipCached(ids, i, ndl, cache) ==
    IF i <= Len(ids) /\ ids[i] \in DOMAIN cache
    THEN SkipCached(ids, i + 1, ndl \o cache[ids[i]], cache)
    ELSE [idx |-> i, ndl |-> ndl]

\* Lines 156-223 from position i of the loop on: up to the next call that
\* has to send a request, or to the end of the script run.
Collect(ids, i, ndl, cache, omap) ==
    LET s == SkipCached(ids, i, ndl, cache) IN
    IF s.idx <= Len(ids)
    THEN {[pc |-> "fetching", event_ids |-> ids, idx |-> s.idx, new_data_list |-> s.ndl,
           outcome |-> "running", new_df |-> <<>>, final_df |-> <<>>,
           artifact |-> NoArtifact]}
    ELSE {[pc |-> "idle", event_ids |-> ids, idx |-> s.idx, new_data_list |-> s.ndl,
           outcome |-> f.outcome, new_df |-> f.new_df, final_df |-> f.final_df,
           artifact |-> f.artifact] : f \in Finish(s.ndl, omap)}

Stopped(ids, why) ==
    {[pc |-> "idle", event_ids |-> ids, idx |-> 1, new_data_list |-> <<>>,
      outcome |-> why, new_df |-> <<>>, final_df |-> <<>>, artifact |-> NoArtifact]}

\* main() without the return on an empty event_ids (lines 143-145).
AfterOrganizersNoReturn(input, btn, omap, cache) ==
    LET ids == ParseEventIds(input) IN
    IF ~btn THEN Stopped(ids, "awaiting_button")
    ELSE Collect(ids, 1, <<>>, cache, omap)

\* Lines 130-223, once organizer_map is known.
AfterOrganizers(input, btn, omap, cache) ==
    LET ids == ParseEventIds(input) IN
    IF ids = <<>> THEN Stopped(ids, "no_event_ids")
    ELSE IF ~btn THEN Stopped(ids, "awaiting_button")
    ELSE Collect(ids, 1, <<>>, cache, omap)

SetRun(r) ==
    /\ pc' = r.pc
    /\ event_ids' = r.event_ids
    /\ idx' = r.idx
    /\ new_data_list' = r.new_data_list
    /\ outcome' = r.outcome
    /\ new_df' = r.new_df
    /\ final_df' = r.final_df
    /\ artifact' = r.artifact

\* ---------------------------------------------------------------- actions
Init ==
    /\ pc = "idle"
    /\ nRuns = 0
    /\ nReq = 0
    /\ orgCache = [hit |-> FALSE, map |-> EmptyMap, diag |-> "none"]
    /\ roomCache = NoCache
    /\ event_ids_input = <<>>
    /\ button = FALSE
    /\ organizer_map = EmptyMap
    /\ event_ids = <<>>
    /\ idx = 1
    /\ new_data_list = <<>>
    /\ all_rooms = <<>>
    /\ page = 1
    /\ outcome = "not_run"
    /\ new_df = <<>>
    /\ final_df = <<>>
    /\ artifact = NoArtifact
    /\ requests = <<>>
    /\ lastResp = NoResp
    /\ fetchDiag = "none"

\* A script run starts: main() up to the first request it has to wait for.
\* fetch_organizer_list is called first (line 127), answered by the cache
\* when it holds a result.
RunScript(input, btn) ==
    /\ pc = "idle"
    /\ nRuns < MaxRuns
    /\ nRuns' = nRuns + 1
    /\ event_ids_input' = input
    /\ button' = btn
    /\ requests' = <<>>
    /\ lastResp' = NoResp
    /\ fetchDiag' = "none"
    /\ all_rooms' = <<>>
    /\ page' = 1
    /\ UNCHANGED <<nReq, orgCache, roomCache>>
    /\ IF orgCache.hit
       THEN /\ organizer_map' = orgCache.map
            /\ \E r \in AfterOrganizers(input, btn, orgCache.map, roomCache) : SetRun(r)
       ELSE /\ organizer_map' = EmptyMap
            /\ \E r \in Stopped(<<>>, "running") :
                  SetRun([r EXCEPT !.pc = "loading_org"])

\* The session's first script run: empty text area, button not clicked.
OpenApp ==
    /\ nRuns = 0
    /\ RunScript(<<>>, FALSE)

\* The user changes the text area: a rerun with the new text.
EditText(input) ==
    /\ nRuns > 0
    /\ input # event_ids_input
    /\ RunScript(input, FALSE)

\* The user clicks the run button, which the last run rendered (line 151):
\* a rerun with the same text and the button True.
ClickRun ==
    /\ nRuns > 0
    /\ outcome \in {"awaiting_button", "total_failure", "crashed", "done"}
    /\ RunScript(event_ids_input, TRUE)

\* The user clicks the download button: a rerun with the button False.
ClickDownload ==
    /\ artifact.produced
    /\ RunScript(event_ids_input, FALSE)

\* fetch_organizer_list's request is answered: the function returns, its
\* result is cached, and main() goes on.
OrgResponse(resp) ==
    /\ pc = "loading_org"
    /\ LET r == LoadOrganizers(resp) IN
       /\ orgCache' = [hit |-> TRUE, map |-> r.map, diag |-> r.diag]
       /\ organizer_map' = r.map
       /\ \E s \in AfterOrganizers(event_ids_input, button, r.map, roomCache) : SetRun(s)
    /\ requests' = Append(requests, OrgRequest)
    /\ UNCHANGED <<nRuns, nReq, roomCache, event_ids_input, button, all_rooms, page,
                   lastResp, fetchDiag>>

\* The request for the current page of event_ids[idx] is sent and answered:
\* one iteration of the fetcher's loop; when the loop ends the function
\* returns, its result is cached and extended into new_data_list, and main()
\* goes on.
FetchPage(resp) ==
    /\ pc = "fetching"
    /\ nReq < MaxRequests
    /\ nReq' = nReq + 1
    /\ requests' = Append(requests, ApiRequest(event_ids[idx], page))
    /\ lastResp' = resp
    /\ LET s == FetchStep(all_rooms, page, resp) IN
       /\ fetchDiag' = s.diag
       /\ IF s.done
          THEN LET cache == [k \in DOMAIN roomCache \cup {event_ids[idx]} |->
                               IF k = event_ids[idx] THEN s.all_rooms ELSE roomCache[k]]
               IN /\ roomCache' = cache
                  /\ \E r \in Collect(event_ids, idx + 1, new_data_list \o s.all_rooms,
                                      cache, organizer_map) :
                        /\ SetRun(r)
                        \* the next call starts over (lines 22-23)
                        /\ all_rooms' = IF r.pc = "fetching" THEN <<>> ELSE s.all_rooms
                        /\ page' = IF r.pc = "fetching" THEN 1 ELSE s.page
          ELSE /\ all_rooms' = s.all_rooms
               /\ page' = s.page
               /\ UNCHANGED <<pc, roomCache, event_ids, idx, new_data_list, outcome,
                              new_df, final_df, artifact>>
    /\ UNCHANGED <<nRuns, orgCache, event_ids_input, button, organizer_map>>

Next ==
    \/ OpenApp
    \/ \E input \in Inputs : EditText(input)
    \/ ClickRun
    \/ ClickDownload
    \/ \E resp \in OrgResponses : OrgResponse(resp)
    \/ \E resp \in Responses : FetchPage(resp)

Spec == Init /\ [][Next]_vars

\* ================================================================ claims
\* The event whose page is being requested, and what its call has returned
\* once the step from this state is taken.
CurrentEvent == event_ids[idx]
LastRequest == requests[Len(requests)]

\* A step in which the request for the current page is sent and answered.
PageStep == pc = "fetching" /\ nReq' = nReq + 1

\* After such a step: the call for the current event has returned.
CallReturned == CurrentEvent \in DOMAIN roomCache'

\* After such a step: main() is past the current event and either at an
\* event further on in the input, which it is about to fetch from page 1, or
\* past the last one with the script run ended by main() itself.
MainWentOn ==
    /\ event_ids' = event_ids
    /\ idx' > idx
    /\ \A i \in (idx + 1)..(idx' - 1) : i <= Len(event_ids) => event_ids[i] \in DOMAIN roomCache'
    /\ \/ idx' <= Len(event_ids) /\ pc' = "fetching" /\ page' = 1 /\ all_rooms' = <<>>
       \/ idx' = Len(event_ids) + 1 /\ pc' = "idle"
             /\ outcome' \in {"total_failure", "crashed", "done"}

\* The script run has gone through every event identifier of the input.
RunCollected == pc = "idle" /\ outcome \in {"total_failure", "crashed", "done"}

RECURSIVE ConcatCached(_, _)
ConcatCached(ids, cache) ==
    IF ids = <<>> THEN <<>> ELSE cache[Head(ids)] \o ConcatCached(Tail(ids), cache)

\* C1: when the request for page p of event e fails (timeout, connection
\* error, HTTP error status, unparsable body), the fetcher returns exactly
\* the records it had collected from the pages before p and requests no
\* further page of e; main() extends its list with them and goes on to the
\* events that follow e; a run that has ended has called the fetcher for
\* every event identifier of the input and holds the concatenation of the
\* results.
C1_FailureKeepsPartial ==
    /\ [][(PageStep /\ lastResp'.kind \in FailKinds) =>
            /\ CallReturned
            /\ roomCache'[CurrentEvent] = all_rooms
            /\ fetchDiag' \in {"request_error", "json_error"}
            /\ MainWentOn
            /\ SubSeq(new_data_list', 1, Len(new_data_list) + Len(all_rooms))
                  = new_data_list \o all_rooms]_vars
    /\ [](RunCollected =>
            /\ idx = Len(event_ids) + 1
            /\ \A i \in 1..Len(event_ids) : event_ids[i] \in DOMAIN roomCache
            /\ new_data_list = ConcatCached(event_ids, roomCache))

\* A request for page 2 of the first event has failed after page 1 gave
\* records; the partial result was returned and the second event is being
\* fetched.
C1_Witness ==
    /\ pc = "fetching"
    /\ idx = 2
    /\ lastResp.kind \in FailKinds
    /\ Len(requests) >= 2
    /\ LastRequest = ApiRequest(event_ids[1], 2)
    /\ roomCache[event_ids[1]] # <<>>
    /\ new_data_list = roomCache[event_ids[1]]

\* C2: a response whose next_page equals the page just requested ends the
\* call: it returns the records collected up to and including that page, and
\* no further request is sent for that event (an event is only ever fetched
\* while the cache holds no result for it).
C2_RepeatedPageTerminates ==
    /\ [][(PageStep /\ lastResp'.kind = "ok" /\ lastResp'.next_page = JInt(page)) =>
            /\ CallReturned
            /\ roomCache'[CurrentEvent] = ProcessList(lastResp'.list, all_rooms).rooms
            /\ (pc' = "fetching" => idx' > idx)]_vars
    /\ [](pc = "fetching" => CurrentEvent \notin DOMAIN roomCache)

\* Page 2 answered with next_page 2 and a non-empty list: the call returned
\* with that page's records included.
C2_Witness ==
    /\ requests # <<>>
    /\ LastRequest.to = "room_list"
    /\ LastRequest.page = 2
    /\ lastResp.kind = "ok"
    /\ lastResp.next_page = JInt(2)
    /\ fetchDiag = "page_done"
    /\ LastRequest.event \in DOMAIN roomCache
    /\ Len(roomCache[LastRequest.event]) >= 3

\* What the call for the current event holds after a page step: its return
\* value when it has returned, its all_rooms otherwise.
StepRooms == IF CallReturned THEN roomCache'[CurrentEvent] ELSE all_rooms'

\* The entry carries a non-empty top-level room_id and a non-empty
\* event_entry.event_id.
HasRequiredFields(e) ==
    /\ Truthy(e.room_id)
    /\ e.event_entry.t = "obj"
    /\ Truthy(e.event_entry.event_id)

\* The record section 4.2 step 4 of the specification derives from an entry.
ExpectedRecord(e) ==
    [room_id |-> Str(e.room_id),
     event_id |-> Str(e.event_entry.event_id),
     room_name |-> IF e.room_name.t = "missing" THEN <<>> ELSE Str(e.room_name),
     organizer_id |-> IF e.organizer_id.t = "missing" THEN <<"0">> ELSE Str(e.organizer_id)]

RECURSIVE ValidRecords(_)
ValidRecords(list) ==
    IF list = <<>> THEN <<>>
    ELSE (IF HasRequiredFields(Head(list)) THEN <<ExpectedRecord(Head(list))>> ELSE <<>>)
         \o ValidRecords(Tail(list))

\* NaN compares below every number.
NumLeq(a, b) == a.nan \/ (~b.nan /\ a.n <= b.n)

\* C3: for every non-empty collected set the FinalTable holds exactly one
\* row for each room_id of the collected set and no other row, and that row
\* is a joined collected record of the room whose numeric event_id is the
\* largest among the room's collected records, all fields unchanged.
C3_OneRowPerRoomWithMaxEvent ==
    (RunCollected /\ new_data_list # <<>>) =>
        /\ \A i \in 1..Len(new_data_list) :
              Cardinality({k \in 1..Len(final_df) :
                              final_df[k].room_id = new_data_list[i].room_id}) = 1
        /\ \A k \in 1..Len(final_df) :
              \E i \in 1..Len(new_df) :
                 /\ final_df[k] = new_df[i]
                 /\ new_df[i].room_id = new_data_list[i].room_id
                 /\ \A j \in 1..Len(new_df) :
                       new_df[j].room_id = new_df[i].room_id =>
                          NumLeq(ToNumeric(new_df[j].event_id), ToNumeric(new_df[i].event_id))

\* C4: a page entry that lacks a required field is the only thing dropped:
\* the page contributes the records of all its other entries, its next_page
\* is consulted, and the page it names is requested next.
C4_OnlyTheBadEntryIsDropped ==
    [][(PageStep /\ lastResp'.kind = "ok" /\ lastResp'.list # <<>>
           /\ (\E i \in 1..Len(lastResp'.list) : ~HasRequiredFields(lastResp'.list[i]))) =>
          /\ StepRooms = all_rooms \o ValidRecords(lastResp'.list)
          /\ IF lastResp'.next_page.t \in {"missing", "null"} \/ lastResp'.next_page = JInt(page)
             THEN CallReturned
             ELSE /\ ~CallReturned
                  /\ pc' = "fetching"
                  /\ idx' = idx
                  /\ page' = lastResp'.next_page.n]_vars

\* Every record held anywhere in the run.
HeldRecords ==
    {all_rooms[i] : i \in 1..Len(all_rooms)} \cup
    {new_data_list[i] : i \in 1..Len(new_data_list)} \cup
    UNION {{roomCache[e][i] : i \in 1..Len(roomCache[e])} : e \in DOMAIN roomCache}

\* C5: every collected record has a non-empty room_id and a non-empty
\* event_id; each record a page adds comes from an entry of that page that
\* has both fields, its room_id being the entry's top-level room_id and its
\* event_id the entry's event_entry.event_id; a page adds no more records
\* than it has such entries.
C5_RecordsComeFromEntryFields ==
    /\ [][(PageStep /\ lastResp'.kind = "ok") =>
            LET list == lastResp'.list
                added == SubSeq(StepRooms, Len(all_rooms) + 1, Len(StepRooms))
            IN /\ SubSeq(StepRooms, 1, Len(all_rooms)) = all_rooms
               /\ \A k \in 1..Len(added) :
                     \E i \in 1..Len(list) :
                        /\ HasRequiredFields(list[i])
                        /\ added[k].room_id = Str(list[i].room_id)
                        /\ added[k].event_id = Str(list[i].event_entry.event_id)
               /\ Len(added) <= Cardinality({i \in 1..Len(list) : HasRequiredFields(list[i])})]_vars
    /\ [](\A r \in HeldRecords : r.room_id # <<>> /\ r.event_id # <<>>)
    /\ [](\A k \in 1..Len(final_df) : final_df[k].room_id # <<>> /\ final_df[k].event_id # <<>>)

\* A page with an entry without room_id and an entry without event_entry
\* (but with a top-level event_id) was processed: its two other entries are
\* the records collected.
C5_Witness ==
    /\ pc = "fetching"
    /\ page = 2
    /\ lastResp.kind = "ok"
    /\ \E i \in 1..Len(lastResp.list) :
          lastResp.list[i].event_entry.t = "missing" /\ Truthy(lastResp.list[i].event_id)
    /\ \E i \in 1..Len(lastResp.list) : lastResp.list[i].room_id.t = "null"
    /\ Len(all_rooms) = 2
    /\ all_rooms = ValidRecords(lastResp.list)

\* C6: a run whose collected list is empty reports total failure, runs none
\* of the join, dedupe, sort and encode steps and produces no artifact; a
\* run that collected a record does not report total failure and produces an
\* artifact.
C6_TotalFailureIffNothingCollected ==
    RunCollected =>
        /\ new_data_list = <<>> =>
              /\ outcome = "total_failure"
              /\ new_df = <<>>
              /\ final_df = <<>>
              /\ ~artifact.produced
        /\ new_data_list # <<>> =>
              /\ outcome # "total_failure"
              /\ artifact.produced

\* C7: when every room_id of the FinalTable is a digit string, its rows are
\* in ascending order of the number the room_id denotes.
C7_SortedByNumericRoomId ==
    (outcome = "done" /\ \A k \in 1..Len(final_df) : IsDigitStr(final_df[k].room_id)) =>
        \A k \in 1..(Len(final_df) - 1) :
            DigitsToNat(final_df[k].room_id, 0) <= DigitsToNat(final_df[k + 1].room_id, 0)

\* A FinalTable of digit-string rooms in which "2" comes before "10".
C7_Witness ==
    /\ outcome = "done"
    /\ \A k \in 1..Len(final_df) : IsDigitStr(final_df[k].room_id)
    /\ \E k, l \in 1..Len(final_df) :
          k < l /\ final_df[k].room_id = <<"2">> /\ final_df[l].room_id = <<"1", "0">>

\* The directory's name for an id: the name cell of the id's last row, the
\* empty string for an id it does not hold.
DirectoryName(oid) ==
    IF Cell(oid) \in DOMAIN organizer_map THEN organizer_map[Cell(oid)].s ELSE <<>>

\* C8: the join keeps the collected records, in order, with room_id,
\* event_id, room_name and organizer_id unchanged, and gives each the
\* directory's name for its organizer_id, or the empty string when the
\* directory does not hold the id or is empty; so does every row of the
\* FinalTable.
C8_JoinSetsOrganizerName ==
    /\ outcome \in {"done", "crashed"} =>
          /\ Len(new_df) = Len(new_data_list)
          /\ \A i \in 1..Len(new_df) :
                /\ new_df[i].room_id = new_data_list[i].room_id
                /\ new_df[i].event_id = new_data_list[i].event_id
                /\ new_df[i].room_name = new_data_list[i].room_name
                /\ new_df[i].organizer_id = new_data_list[i].organizer_id
                /\ new_df[i].organizer_name = DirectoryName(new_df[i].organizer_id)
    /\ outcome = "done" =>
          \A k \in 1..Len(final_df) :
             final_df[k].organizer_name = DirectoryName(final_df[k].organizer_id)

\* A FinalTable built with a non-empty directory, holding a row whose
\* organizer is in the directory and a row whose organizer is not.
C8_Witness ==
    /\ outcome = "done"
    /\ DOMAIN organizer_map # {}
    /\ \E k \in 1..Len(final_df) :
          /\ Cell(final_df[k].organizer_id) \in DOMAIN organizer_map
          /\ final_df[k].organizer_name = <<"A", "c">>
    /\ \E k \in 1..Len(final_df) :
          /\ Cell(final_df[k].organizer_id) \notin DOMAIN organizer_map
          /\ final_df[k].organizer_name = <<>>

\* A script run has ended on a text area holding no all-digit identifier.
NoValidIds ==
    /\ pc = "idle"
    /\ nRuns > 0
    /\ \A i \in 1..Len(SplitIds(Strip(event_ids_input), <<>>, FALSE)) :
          ~IsDigitStr(Strip(SplitIds(Strip(event_ids_input), <<>>, FALSE)[i]))

\* C9 as stated: with no valid identifier the run sends no HTTP request at
\* all, neither to the room-list API nor to the organizer-list URL, and
\* produces no artifact.
C9_NoIdsNoRequestAtAll ==
    NoValidIds => requests = <<>> /\ ~artifact.produced

\* C9 as amended: with no valid identifier the run stops at the warning: it
\* sends no request to the room-list API, collects, joins and encodes
\* nothing and produces no artifact; the organizer list is loaded first all
\* the same, by a request when the cache holds no result.
C9_NoIdsNoRoomRequest ==
    NoValidIds =>
        /\ outcome = "no_event_ids"
        /\ requests \in {<<>>, <<OrgRequest>>}
        /\ orgCache.hit
        /\ organizer_map = orgCache.map
        /\ new_data_list = <<>>
        /\ new_df = <<>>
        /\ final_df = <<>>
        /\ ~artifact.produced

\* A rerun on a text that holds no identifier, after a run that fetched.
C9_Witness ==
    /\ NoValidIds
    /\ event_ids_input # <<>>
    /\ outcome = "no_event_ids"
    /\ roomCache # NoCache

\* C10: when loading the organizer list fails, the mapping is empty and the
\* run is not aborted: a run that collected a record produces a FinalTable
\* and an artifact, every organizer_name being the empty string.
C10_OrganizerFailureDegrades ==
    (orgCache.hit /\ orgCache.diag \in {"request_error", "unexpected_error", "few_columns"}) =>
        /\ DOMAIN orgCache.map = {}
        /\ (RunCollected /\ new_data_list # <<>>) =>
              /\ outcome = "done"
              /\ final_df # <<>>
              /\ artifact.produced
              /\ \A k \in 1..Len(final_df) : final_df[k].organizer_name = <<>>

\* C11: the collected list is the concatenation of the calls' results in the
\* order of the input identifiers; a page appends its records after those of
\* the pages requested before it, in the order of the entries of its list;
\* a call's result is appended after the results of the identifiers before
\* it, and the list does not change while a call is under way.
C11_CollectionOrder ==
    /\ [][(PageStep /\ lastResp'.kind = "ok") =>
            /\ \E n \in 0..Len(lastResp'.list) :
                  StepRooms = all_rooms \o ValidRecords(SubSeq(lastResp'.list, 1, n))
            /\ IF CallReturned
               THEN SubSeq(new_data_list', 1, Len(new_data_list) + Len(StepRooms))
                       = new_data_list \o StepRooms
               ELSE new_data_list' = new_data_list]_vars
    /\ [](pc = "fetching" =>
            new_data_list = ConcatCached(SubSeq(event_ids, 1, idx - 1), roomCache))
    /\ [](RunCollected => new_data_list = ConcatCached(event_ids, roomCache))

\* A run on the identifiers "2", "1" (in that order) has ended: "2" gave
\* records on two pages, "1" gave other records, and the collected list
\* holds the records of "2" first.
C11_Witness ==
    /\ RunCollected
    /\ event_ids = << <<"2">>, <<"1">> >>
    /\ Len(requests) = 3
    /\ requests[2] = ApiRequest(<<"2">>, 2)
    /\ Len(roomCache[<<"2">>]) >= 3
    /\ roomCache[<<"1">>] # <<>>
    /\ roomCache[<<"1">>][1] # roomCache[<<"2">>][1]
    /\ new_data_list = roomCache[<<"2">>] \o roomCache[<<"1">>]

\* The request about to be sent is the first of the call for the current
\* event: this script run has sent none for the event yet.
FirstRequestOfCall ==
    \A i \in 1..Len(requests) :
        ~(requests[i].to = "room_list" /\ requests[i].event = CurrentEvent)

\* The requests this script run has sent for event e.
RequestsFor(e) ==
    {i \in 1..Len(requests) : requests[i].to = "room_list" /\ requests[i].event = e}

\* C12: when the first response of a call carries a non-empty list and a
\* null or absent next_page, the call ends with that one request, the one
\* for page 1, and returns exactly the valid records of the page's list, in
\* entry order.
C12_SinglePageEvent ==
    [][(/\ PageStep
        /\ FirstRequestOfCall
        /\ lastResp'.kind = "ok"
        /\ lastResp'.has_list
        /\ lastResp'.list # <<>>
        /\ lastResp'.next_page.t \in {"missing", "null"})
       => /\ page = 1
          /\ requests' = Append(requests, ApiRequest(CurrentEvent, 1))
          /\ CallReturned
          /\ roomCache'[CurrentEvent] = ValidRecords(lastResp'.list)]_vars

\* The rows of the joined collected frame that tie with row f: same room_id
\* and an event_id of the same numeric value.
TiesOf(f) ==
    {j \in 1..Len(new_df) :
        /\ new_df[j].room_id = f.room_id
        /\ ~ToNumeric(new_df[j].event_id).nan
        /\ ~ToNumeric(f.event_id).nan
        /\ ToNumeric(new_df[j].event_id).n = ToNumeric(f.event_id).n}

MinOf(S) == CHOOSE i \in S : \A j \in S : i <= j

\* C13: when several collected records of a room carry the same, maximal
\* numeric event_id, the row kept for the room is the one that comes first in
\* collection order: every row of the FinalTable is the earliest collected
\* row among those tying with it, so the kept rows are determined by the
\* collected sequence.
C13_FirstOfTiesKept ==
    (pc = "idle" /\ outcome = "done") =>
        \A k \in 1..Len(final_df) :
            /\ TiesOf(final_df[k]) # {}
            /\ final_df[k] = new_df[MinOf(TiesOf(final_df[k]))]

C13_Witness ==
    /\ pc = "idle"
    /\ outcome = "done"
    /\ \E k \in 1..Len(final_df) :
          \E i, j \in TiesOf(final_df[k]) :
              /\ i < j
              /\ new_df[i] # new_df[j]
              /\ final_df[k] = new_df[i]

\* C14: a pipeline run is stateless across invocations: the records it
\* collects for an event identifier are determined only by the HTTP
\* responses received during that run, and nothing retained from an earlier
\* invocation (a complete result, or the partial result of a failed fetch)
\* reaches its FinalTable. Hence a run that has gone through its collection
\* loop has sent at least the page-1 request of every identifier it
\* processed.
C14_RunFetchesItsOwnRecords ==
    RunCollected => \A i \in 1..Len(event_ids) : RequestsFor(event_ids[i]) # {}

\* C15: a response whose next_page is non-null and does not move past the
\* page just requested (it equals that page or points back to an earlier
\* one, as in 1 -> 2 -> 1) still lets the call terminate: the cycle guard
\* ends the call at that response, so no page is requested again and the
\* requests for the event stay finitely many.
C15_NonAdvancingNextPageEndsCall ==
    [][(/\ PageStep
        /\ lastResp'.kind = "ok"
        /\ lastResp'.next_page.t = "int"
        /\ lastResp'.next_page.n <= page)
       => CallReturned]_vars

\* C16: the three pagination guards are independent. A response whose list
\* is absent or empty ends the call at once, whatever its next_page says, and
\* the call returns the records of the earlier pages; a response with a
\* non-empty list ends the call when its next_page is null or absent, and
\* also when its next_page equals the page just requested.
C16_ThreeIndependentGuards ==
    [][(PageStep /\ lastResp'.kind = "ok") =>
          /\ (~lastResp'.has_list \/ lastResp'.list = <<>>) =>
                (CallReturned /\ roomCache'[CurrentEvent] = all_rooms)
          /\ lastResp'.next_page.t \in {"missing", "null"} => CallReturned
          /\ (lastResp'.next_page.t = "int" /\ lastResp'.next_page.n = page) => CallReturned]_vars

\* The third request of a call, for page 1 again, is answered without a list
\* and with next_page 2: the call has returned the records of the two
\* earlier pages.
C16_Witness ==
    /\ Len(requests) = 3
    /\ requests[1].event = LastRequest.event
    /\ requests[2].event = LastRequest.event
    /\ LastRequest.page = 1
    /\ lastResp.kind = "ok"
    /\ ~lastResp.has_list
    /\ lastResp.next_page = JInt(2)
    /\ LastRequest.event \in DOMAIN roomCache
    /\ Len(roomCache[LastRequest.event]) >= 2

AllEntriesFail(list) == \A i \in 1..Len(list) : ~HasRequiredFields(list[i])

\* C17: a page whose list is non-empty and whose entries all fail the
\* required-fields check adds no record and does not end the call by itself:
\* next_page is still read, and when it is non-null and differs from the page
\* just requested, that page is the next one to be requested.
C17_AllInvalidPageIsFollowed ==
    [][(/\ PageStep
        /\ lastResp'.kind = "ok"
        /\ lastResp'.list # <<>>
        /\ AllEntriesFail(lastResp'.list))
       => /\ StepRooms = all_rooms
          /\ (lastResp'.next_page.t = "int" /\ lastResp'.next_page.n # page) =>
                /\ ~CallReturned
                /\ pc' = "fetching"
                /\ idx' = idx
                /\ page' = lastResp'.next_page.n]_vars

FinalRowsOf(rid) == {k \in 1..Len(final_df) : final_df[k].room_id = rid}

\* C18: the dedupe completes for every non-empty collected set, records
\* whose event_id is not a number included: such a record ranks below every
\* record with a numeric event_id, and a room all of whose records have a
\* non-numeric event_id still has exactly one row in the FinalTable.
C18_DedupeNeverRaises ==
    (RunCollected /\ new_data_list # <<>>) =>
        /\ outcome = "done"
        /\ \A i \in 1..Len(new_data_list) :
              /\ Cardinality(FinalRowsOf(new_data_list[i].room_id)) = 1
              /\ \A k \in FinalRowsOf(new_data_list[i].room_id) :
                    NumLeq(ToNumeric(new_data_list[i].event_id),
                           ToNumeric(final_df[k].event_id))

\* C19 as stated: in the FinalTable every row whose room_id is not a number
\* comes before all rows with a numeric room_id, and the non-numeric rows
\* are in the order in which their records were collected.
C19_NonNumericRoomsFirst ==
    (pc = "idle" /\ outcome = "done") =>
        \A k, l \in 1..Len(final_df) : k < l =>
            /\ RoomNum(final_df[l]).nan => RoomNum(final_df[k]).nan
            /\ (RoomNum(final_df[k]).nan /\ RoomNum(final_df[l]).nan) =>
                  \E i, j \in 1..Len(new_df) :
                      i < j /\ new_df[i] = final_df[k] /\ new_df[j] = final_df[l]

\* C19, amended: in the FinalTable every row whose room_id is not a number
\* comes after all rows with a numeric room_id, and the non-numeric rows are
\* in ascending order of their room_id strings, whatever the order in which
\* their records were collected.
C19_NonNumericRoomsLast ==
    (pc = "idle" /\ outcome = "done") =>
        \A k, l \in 1..Len(final_df) : k < l =>
            /\ RoomNum(final_df[k]).nan => RoomNum(final_df[l]).nan
            /\ (RoomNum(final_df[k]).nan /\ RoomNum(final_df[l]).nan) =>
                  StrLess(final_df[k].room_id, final_df[l].room_id)

\* Room "x" was collected before room "a"; the FinalTable ends with the row
\* of "a" and then the row of "x", after a row with a numeric room_id.
C19_Witness ==
    /\ pc = "idle"
    /\ outcome = "done"
    /\ Len(final_df) >= 3
    /\ ~RoomNum(final_df[Len(final_df) - 2]).nan
    /\ final_df[Len(final_df) - 1].room_id = <<"a">>
    /\ final_df[Len(final_df)].room_id = <<"x">>
    /\ \E i, j \in 1..Len(new_df) :
          i < j /\ new_df[i].room_id = <<"x">> /\ new_df[j].room_id = <<"a">>

\* The collected sequence s with its records at positions i and i + 1
\* exchanged. Every permutation of s is a composition of such exchanges.
SwapAdjacent(s, i) ==
    [k \in 1..Len(s) |-> IF k = i THEN s[i + 1] ELSE IF k = i + 1 THEN s[i] ELSE s[k]]

\* What the join, the dedupe and the sort make of a collected sequence: the
\* FinalTables they can end with, or the way they end without one.
TablesOf(s) ==
    {[outcome |-> f.outcome, final_df |-> f.final_df] : f \in Finish(s, organizer_map)}

NoSharedRoomAndEvent(s) ==
    \A i, j \in 1..Len(s) :
        i # j => ~(s[i].room_id = s[j].room_id /\ s[i].event_id = s[j].event_id)

NoSharedRoomAndEventNumber(s) ==
    \A i, j \in 1..Len(s) :
        (i # j /\ s[i].room_id = s[j].room_id) =>
            \/ ToNumeric(s[i].event_id).nan
            \/ ToNumeric(s[j].event_id).nan
            \/ ToNumeric(s[i].event_id).n # ToNumeric(s[j].event_id).n

\* C20 as stated: a collected sequence in which no two records share both
\* room_id and event_id gives the same FinalTable (same rows, same order) as
\* each of its permutations; checked for the exchange of two neighbouring
\* records, of which every permutation is composed.
C20_OrderInsensitive ==
    (RunCollected /\ NoSharedRoomAndEvent(new_data_list)) =>
        \A i \in 1..(Len(new_data_list) - 1) :
            TablesOf(SwapAdjacent(new_data_list, i)) = TablesOf(new_data_list)

\* C20, amended: a collected sequence in which no two records of a room
\* carry event_ids of the same numeric value gives the same FinalTable (same
\* rows, same order) as each of its permutations.
C20_OrderInsensitiveWithoutNumericTies ==
    (RunCollected /\ NoSharedRoomAndEventNumber(new_data_list)) =>
        \A i \in 1..(Len(new_data_list) - 1) :
            TablesOf(SwapAdjacent(new_data_list, i)) = TablesOf(new_data_list)

\* A run that ended with a FinalTable and collected, next to each other, two
\* records of one room with event_ids of different numeric value, the lower
\* one first.
C20_Witness ==
    /\ pc = "idle"
    /\ outcome = "done"
    /\ NoSharedRoomAndEventNumber(new_data_list)
    /\ \E i \in 1..(Len(new_data_list) - 1) :
          /\ new_data_list[i].room_id = new_data_list[i + 1].room_id
          /\ ~ToNumeric(new_data_list[i].event_id).nan
          /\ ~ToNumeric(new_data_list[i + 1].event_id).nan
          /\ ToNumeric(new_data_list[i].event_id).n < ToNumeric(new_data_list[i + 1].event_id).n

====
